---- MODULE Spec2Model ----
(***************************************************************************)
(* Rule Guardian (src/ruleGuardian.js): the message moderation pipeline.   *)
(*                                                                         *)
(* A text is a sequence of one-character strings.  Two specifications:     *)
(*   SpecDetect  the classifier detectContent applied to every text of a   *)
(*               bounded length under every configuration of Configs;     *)
(*   Spec        the session: messageCreate events dispatched to           *)
(*               onMessageCreate, whose runs suspend at the external calls *)
(*               (message.reply, channels.fetch, modLogChannel.send) and   *)
(*               interleave there.                                         *)
(***************************************************************************)
EXTENDS Integers, Sequences, FiniteSets, TLC

\* ------------------------------------------------------------------ bounds
\* longest text classified under SpecDetect
MaxTextLen == 4
\* last instant of the clock (Date.now()), in model time units
MaxTime == 3
\* most triggered events the session records
MaxEvents == 3
\* most pipeline runs suspended at the same time
MaxInFlight == 2
\* model time units per UTC day
DayLen == 2

\* ------------------------------------------------------------- characters
Letters == {"s", "S", "u", "U"}
Digits == {"5"}
Spaces == {" "}
\* the currency class [$£€] of the price patterns
CurrencySymbols == {"$", "£", "€"}
\* the characters texts are drawn from
Alphabet == {"s", "S", "u", "$", "£", "5", " ", "."}

\* String.prototype.toLowerCase, per character
toLowerCase(c) ==
    CASE c = "S" -> "s"
      [] c = "U" -> "u"
      [] OTHER -> c

\* toLowerCase of a whole string
LowerStr(s) == [i \in 1..Len(s) |-> toLowerCase(s[i])]

\* \w of a RegExp
IsWordChar(c) == c \in Letters \cup Digits

\* \b at position p: between text[p-1] and text[p], the ends counting as non-word
WordBoundary(text, p) ==
    LET before == p > 1 /\ IsWordChar(text[p - 1])
        after == p <= Len(text) /\ IsWordChar(text[p])
    IN  before # after

\* the escaped pattern, taken literally, matches at position i ignoring case
LiteralAt(text, pat, i) ==
    /\ i + Len(pat) - 1 <= Len(text)
    /\ \A k \in 1..Len(pat) : toLowerCase(text[i + k - 1]) = toLowerCase(pat[k])

\* new RegExp(`\\b${escapeRegex(term)}\\b`, 'i').test(content)
WordRegexTest(pat, text) ==
    \E i \in 1..(Len(text) + 1) :
        /\ LiteralAt(text, pat, i)
        /\ WordBoundary(text, i)
        /\ WordBoundary(text, i + Len(pat))

\* the exception regex compiled without the 'i' flag
SubstringRegexTestCaseSensitive(pat, text) ==
    \E i \in 1..(Len(text) + 1) :
        /\ i + Len(pat) - 1 <= Len(text)
        /\ \A k \in 1..Len(pat) : text[i + k - 1] = pat[k]

\* new RegExp(escapeRegex(pattern), 'i').test(content)
SubstringRegexTest(pat, text) ==
    \E i \in 1..(Len(text) + 1) : LiteralAt(text, pat, i)

\* buildDetectors: the three matcher collections, each entry keeping its source string
buildDetectors(config) ==
    [restrictedTermChecks |-> config.restrictedTerms,
     exceptionChecks |-> config.exceptionPatterns,
     priceKeywordChecks |-> config.priceKeywords]

\* last index of the maximal digit run starting at j (j - 1 when there is none)
RECURSIVE DigitsEnd(_, _)
DigitsEnd(text, j) ==
    IF j <= Len(text) /\ text[j] \in Digits THEN DigitsEnd(text, j + 1) ELSE j - 1

\* /[$£€]\s?\d+(?:[.,]\d{1,2})?/ anchored at i: the index the match ends at, 0 for no match
AmountEnd(text, i) ==
    IF ~(i <= Len(text) /\ text[i] \in CurrencySymbols) THEN 0
    ELSE
        LET j == IF i + 1 <= Len(text) /\ text[i + 1] \in Spaces THEN i + 2 ELSE i + 1
            e == DigitsEnd(text, j)
        IN  IF e < j THEN 0
            ELSE IF /\ e + 2 <= Len(text)
                    /\ text[e + 1] \in {".", ","}
                    /\ text[e + 2] \in Digits
                 THEN IF e + 3 <= Len(text) /\ text[e + 3] \in Digits THEN e + 3 ELSE e + 2
                 ELSE e

\* content.match(/[$£€]\s?\d+(?:[.,]\d{1,2})?/gi) || [], scanning from position i
RECURSIVE symbolAmountMatches(_, _)
symbolAmountMatches(text, i) ==
    IF i > Len(text) THEN <<>>
    ELSE LET e == AmountEnd(text, i)
         IN  IF e = 0 THEN symbolAmountMatches(text, i + 1)
             ELSE <<SubSeq(text, i, e)>> \o symbolAmountMatches(text, e + 1)

\* the symbol-only scan written for the dollar sign alone
RECURSIVE rawSymbolMatchesDollarOnly(_, _)
rawSymbolMatchesDollarOnly(text, i) ==
    IF i > Len(text) THEN <<>>
    ELSE IF text[i] = "$"
         THEN <<(<<text[i]>>)>> \o rawSymbolMatchesDollarOnly(text, i + 1)
         ELSE rawSymbolMatchesDollarOnly(text, i + 1)

\* content.match(/[$£€]/g) || [], scanning from position i
RECURSIVE rawSymbolMatches(_, _)
rawSymbolMatches(text, i) ==
    IF i > Len(text) THEN <<>>
    ELSE IF text[i] \in CurrencySymbols
         THEN <<(<<text[i]>>)>> \o rawSymbolMatches(text, i + 1)
         ELSE rawSymbolMatches(text, i + 1)

\* the entries of checks whose word regex matches, in order
RECURSIVE WordMatches(_, _)
WordMatches(checks, text) ==
    IF checks = <<>> THEN <<>>
    ELSE IF WordRegexTest(Head(checks), text)
         THEN <<Head(checks)>> \o WordMatches(Tail(checks), text)
         ELSE WordMatches(Tail(checks), text)

\* the exception patterns whose regex matches, in order
RECURSIVE exceptionMatches(_, _)
exceptionMatches(checks, text) ==
    IF checks = <<>> THEN <<>>
    ELSE IF SubstringRegexTest(Head(checks), text)
         THEN <<Head(checks)>> \o exceptionMatches(Tail(checks), text)
         ELSE exceptionMatches(Tail(checks), text)

\* [...new Set(values)]: first occurrences, in order, compared by ===
RECURSIVE Unique(_)
Unique(values) ==
    IF values = <<>> THEN <<>>
    ELSE LET init == Unique(SubSeq(values, 1, Len(values) - 1))
             last == values[Len(values)]
         IN  IF \E k \in 1..Len(init) : init[k] = last THEN init ELSE Append(init, last)

\* the price signals pooled when price-pattern detection is enabled
PriceSignals(content, detectors, config) ==
    IF config.enablePricePattern
    THEN symbolAmountMatches(content, 1) \o rawSymbolMatches(content, 1)
            \o WordMatches(detectors.priceKeywordChecks, content)
    ELSE <<>>

\* the verdict of the exception branch
ExceptionVerdict ==
    [triggered |-> FALSE, matchedTerms |-> <<>>, matchedPriceSignals |-> <<>>,
     triggerTypes |-> <<>>]

\* detectContent deciding triggered from the restricted terms alone
detectContentTermsOnly(content, detectors, config) ==
    LET matchedTerms == WordMatches(detectors.restrictedTermChecks, content)
        matchedPriceSignals == PriceSignals(content, detectors, config)
        exceptions == exceptionMatches(detectors.exceptionChecks, content)
        uniqueTerms == Unique(matchedTerms)
        uniquePriceSignals == Unique(matchedPriceSignals)
        triggerTypes ==
            (IF Len(uniqueTerms) > 0 THEN <<"word match">> ELSE <<>>)
                \o (IF Len(uniquePriceSignals) > 0 THEN <<"price pattern">> ELSE <<>>)
    IN  IF Len(exceptions) > 0 THEN ExceptionVerdict
        ELSE [triggered |-> Len(uniqueTerms) > 0,
              matchedTerms |-> uniqueTerms,
              matchedPriceSignals |-> uniquePriceSignals,
              triggerTypes |-> triggerTypes]

\* detectContent(content, detectors, config)
detectContent(content, detectors, config) ==
    LET matchedTerms == WordMatches(detectors.restrictedTermChecks, content)
        matchedPriceSignals == PriceSignals(content, detectors, config)
        exceptions == exceptionMatches(detectors.exceptionChecks, content)
        uniqueTerms == Unique(matchedTerms)
        uniquePriceSignals == Unique(matchedPriceSignals)
        triggerTypes ==
            (IF Len(uniqueTerms) > 0 THEN <<"word match">> ELSE <<>>)
                \o (IF Len(uniquePriceSignals) > 0 THEN <<"price pattern">> ELSE <<>>)
    IN  IF Len(exceptions) > 0 THEN ExceptionVerdict
        ELSE [triggered |-> Len(triggerTypes) > 0,
              matchedTerms |-> uniqueTerms,
              matchedPriceSignals |-> uniquePriceSignals,
              triggerTypes |-> triggerTypes]

\* ------------------------------------------------------------ configuration
\* the value of config.warningCooldownMs when a cooldown is configured
Cooldown == 2

\* buildConfig: channels selected by name, no guild filter, log channel found by name
ConfigByName ==
    [guildId |-> "", ruleChannelIds |-> {}, ruleChannelNames |-> {"chatter", "general"},
     modLogChannelId |-> "", modLogChannelName |-> "mod-log",
     restrictedTerms |-> <<(<<"s">>)>>, exceptionPatterns |-> <<>>,
     enablePricePattern |-> TRUE, priceKeywords |-> <<(<<"u">>)>>,
     warningCooldownMs |-> Cooldown]

\* buildConfig: channels selected by id, guild filter, log channel id, an exception pattern,
\* term and keyword lists holding one word in two letter cases
ConfigById ==
    [guildId |-> "g1", ruleChannelIds |-> {"c2"}, ruleChannelNames |-> {"chatter"},
     modLogChannelId |-> "m2", modLogChannelName |-> "mod-log",
     restrictedTerms |-> <<(<<"s">>), (<<"S">>)>>, exceptionPatterns |-> <<(<<"s", ".">>)>>,
     enablePricePattern |-> TRUE, priceKeywords |-> <<(<<"U">>), (<<"u">>)>>,
     warningCooldownMs |-> Cooldown]

\* buildConfig: the defaults of cooldown (0) with price-pattern detection switched off
ConfigNoCooldown ==
    [guildId |-> "", ruleChannelIds |-> {}, ruleChannelNames |-> {"chatter"},
     modLogChannelId |-> "", modLogChannelName |-> "mod-log",
     restrictedTerms |-> <<(<<"s">>), (<<"s", "u">>)>>,
     exceptionPatterns |-> <<(<<".">>), (<<"U", "5">>)>>,
     enablePricePattern |-> FALSE, priceKeywords |-> <<(<<"u">>)>>,
     warningCooldownMs |-> 0]

\* the configurations the session is started with
Configs == {ConfigByName, ConfigById, ConfigNoCooldown}

\* ---------------------------------------------------------------- messages
\* message.channel of the inbound events: id, display name, kind, guild ("" outside a guild)
Channels ==
    { [id |-> "c1", name |-> "Chatter", type |-> "GuildText", guildId |-> "g1"],
      [id |-> "c2", name |-> "general", type |-> "GuildText", guildId |-> "g1"],
      [id |-> "c3", name |-> "chatter", type |-> "GuildVoice", guildId |-> "g1"],
      [id |-> "c4", name |-> "chatter", type |-> "GuildText", guildId |-> "g2"],
      [id |-> "d1", name |-> "", type |-> "DM", guildId |-> ""] }

\* message.author of the inbound events
Authors ==
    { [id |-> "u1", bot |-> FALSE], [id |-> "u2", bot |-> FALSE], [id |-> "b1", bot |-> TRUE] }

\* the messageCreate event of author a in channel c with content text
Msg(a, c, text) ==
    [author |-> CHOOSE x \in Authors : x.id = a,
     channel |-> CHOOSE x \in Channels : x.id = c,
     content |-> text]

\* messages the eligibility gate or the classifier turns away under some configuration
Bystanders ==
    { Msg("b1", "c1", <<"s">>), Msg("u1", "c3", <<"s">>), Msg("u1", "d1", <<"s">>),
      Msg("u2", "c1", <<"5">>), Msg("u2", "c1", <<>>), Msg("u2", "c2", <<"$", "s", ".">>),
      Msg("u2", "c4", <<"s">>) }

\* the sessions explored: a configuration, the log-channel candidates guild g1 has as text
\* channels at start, the messages the gateway may deliver, how many triggered events of
\* them are followed and how many of their runs may be suspended at once
Scenarios ==
    { \* one user in one channel selected by name, over a long session
      [config |-> ConfigByName, textChannels |-> {"m1"}, maxEvents |-> MaxEvents,
       maxInFlight |-> MaxInFlight - 1,
       feed |-> {Msg("u1", "c1", <<"s">>)} \cup (Bystanders \ {Msg("u2", "c4", <<"s">>)})],
      \* two users in two channels selected by name
      [config |-> ConfigByName, textChannels |-> {"m1"}, maxEvents |-> MaxEvents - 1,
       maxInFlight |-> MaxInFlight,
       feed |-> {Msg("u1", "c1", <<"s">>), Msg("u2", "c2", <<"s", " ", "$">>)}],
      \* a channel selected by id in the configured guild, the log channel given by id
      [config |-> ConfigById, textChannels |-> {"m1", "m2"}, maxEvents |-> MaxEvents - 1,
       maxInFlight |-> MaxInFlight,
       feed |-> {Msg("u1", "c2", <<"s", " ", "$">>), Msg("u1", "c1", <<"s">>)} \cup Bystanders],
      \* no cooldown, no price patterns, a guild without any log channel
      [config |-> ConfigNoCooldown, textChannels |-> {}, maxEvents |-> MaxEvents,
       maxInFlight |-> MaxInFlight,
       feed |-> {Msg("u2", "c4", <<"s">>), Msg("u1", "c4", <<"$", "5">>),
                 Msg("u1", "c4", <<"s", ".">>), Msg("u1", "c2", <<"s">>)}] }

\* every text of at most n characters
TextsUpTo(n) == UNION {[1..k -> Alphabet] : k \in 0..n}

\* String.prototype.toLowerCase of a channel name
LowerName(name) ==
    CASE name = "Chatter" -> "chatter"
      [] name = "Mod-Log" -> "mod-log"
      [] OTHER -> name

\* ChannelType.GuildText
GuildText == "GuildText"

\* getUtcDay: the UTC day an instant falls in
getUtcDay(t) == t \div DayLen

\* ------------------------------------------------------------------- state
VARIABLES
    config,             \* buildConfig(), fixed at start
    feed,               \* the messages the gateway may deliver, fixed at start
    maxEvents,          \* how many triggered events are followed, fixed at start
    maxInFlight,        \* how many runs may be suspended at once, fixed at start
    clock,              \* Date.now()
    cooldowns,          \* state.cooldowns: key -> last warning time
    metrics,            \* state.metrics: day, triggersToday, byChannel, byRule
    modLogChannelIds,   \* state.modLogChannelIds: guild id -> channel id
    guildText,          \* the log-channel candidates of guild g1 that exist as text channels
    runs,               \* the suspended runs of onMessageCreate, in dispatch order
    events,             \* how many runs reached handleTriggeredMessage
    completed,          \* how many of them resolved their promise
    rejected,           \* how many of them rejected it (an error left onMessageCreate)
    checks,             \* per cooldown key, the cooldown checks made: time, answer, reply called
    console,            \* the diagnostic console.error wrote last ("" before the first)
    sample              \* SpecDetect: the text under classification and its verdict

vars ==
    <<config, feed, maxEvents, maxInFlight, clock, cooldowns, metrics, modLogChannelIds,
      guildText, runs, events, completed, rejected, checks, console, sample>>

\* what no step changes
fixed == <<config, feed, maxEvents, maxInFlight, sample>>

\* ----------------------------------------------------------------- helpers
\* Map.get(key) || 0
CountOf(map, key) == IF key \in DOMAIN map THEN map[key] ELSE 0

\* bumpCount storing 1 instead of the previous count plus one
bumpCountOverwrites(map, key) ==
    [k \in DOMAIN map \cup {key} |-> IF k = key THEN 1 ELSE map[k]]

\* bumpCount(map, key)
bumpCount(map, key) ==
    [k \in DOMAIN map \cup {key} |-> IF k = key THEN CountOf(map, key) + 1 ELSE map[k]]

\* bumpCount applied to prefix:lower-cased entry, for every entry of values in order
RECURSIVE bumpAll(_, _, _)
bumpAll(map, prefix, values) ==
    IF values = <<>> THEN map
    ELSE bumpAll(bumpCount(map, <<prefix>> \o LowerStr(Head(values))), prefix, Tail(values))

\* the empty Map
EmptyMap == [k \in {} |-> 0]

\* `${message.author.id}:${message.channelId}`
cooldownKey(authorId, channelId) == <<authorId, channelId>>

\* isStandardTextChannel(message)
isStandardTextChannel(message) == message.channel.type = GuildText

\* shouldProcessMessage without the check of message.author.bot
shouldProcessMessageBotsToo(message, cfg) ==
    IF message.channel.guildId = "" THEN FALSE
    ELSE IF ~isStandardTextChannel(message) THEN FALSE
    ELSE IF cfg.guildId # "" /\ message.channel.guildId # cfg.guildId THEN FALSE
    ELSE IF Cardinality(cfg.ruleChannelIds) > 0
         THEN message.channel.id \in cfg.ruleChannelIds
         ELSE LowerName(message.channel.name) \in cfg.ruleChannelNames

\* shouldProcessMessage falling back to the channel name when the id is not listed
shouldProcessMessageIdsOrNames(message, cfg) ==
    IF message.channel.guildId = "" THEN FALSE
    ELSE IF ~isStandardTextChannel(message) THEN FALSE
    ELSE IF cfg.guildId # "" /\ message.channel.guildId # cfg.guildId THEN FALSE
    ELSE IF message.author.bot THEN FALSE
    ELSE \/ message.channel.id \in cfg.ruleChannelIds
         \/ LowerName(message.channel.name) \in cfg.ruleChannelNames

\* shouldProcessMessage(message, config)
shouldProcessMessage(message, cfg) ==
    IF message.channel.guildId = "" THEN FALSE
    ELSE IF ~isStandardTextChannel(message) THEN FALSE
    ELSE IF cfg.guildId # "" /\ message.channel.guildId # cfg.guildId THEN FALSE
    ELSE IF message.author.bot THEN FALSE
    ELSE IF Cardinality(cfg.ruleChannelIds) > 0
         THEN message.channel.id \in cfg.ruleChannelIds
         ELSE LowerName(message.channel.name) \in cfg.ruleChannelNames

\* isCoolingDown storing now on the suppressed path as well
isCoolingDownRefreshing(cds, key, cfg, now) ==
    [suppressed |-> key \in DOMAIN cds /\ cds[key] # 0 /\ now - cds[key] < cfg.warningCooldownMs,
     cooldowns |-> [k \in DOMAIN cds \cup {key} |-> IF k = key THEN now ELSE cds[k]]]

\* isCoolingDown storing the time of the first warning of a key only
isCoolingDownFirstOnly(cds, key, cfg, now) ==
    IF key \in DOMAIN cds /\ cds[key] # 0 /\ now - cds[key] < cfg.warningCooldownMs
    THEN [suppressed |-> TRUE, cooldowns |-> cds]
    ELSE [suppressed |-> FALSE,
          cooldowns |-> [k \in DOMAIN cds \cup {key} |-> IF k \in DOMAIN cds THEN cds[k] ELSE now]]

\* isCoolingDown comparing with <= instead of <
isCoolingDownInclusive(cds, key, cfg, now) ==
    IF key \in DOMAIN cds /\ cds[key] # 0 /\ now - cds[key] <= cfg.warningCooldownMs
    THEN [suppressed |-> TRUE, cooldowns |-> cds]
    ELSE [suppressed |-> FALSE,
          cooldowns |-> [k \in DOMAIN cds \cup {key} |-> IF k = key THEN now ELSE cds[k]]]

\* isCoolingDown(state, message, config, now): the answer and the cooldowns map after it
isCoolingDown(cds, key, cfg, now) ==
    IF key \in DOMAIN cds /\ cds[key] # 0 /\ now - cds[key] < cfg.warningCooldownMs
    THEN [suppressed |-> TRUE, cooldowns |-> cds]
    ELSE [suppressed |-> FALSE,
          cooldowns |-> [k \in DOMAIN cds \cup {key} |-> IF k = key THEN now ELSE cds[k]]]

\* the reset of bumpMetrics clearing the total but not the two maps
ResetIfNewDayKeepsMaps(met, currentDay) ==
    IF met.day # currentDay
    THEN [met EXCEPT !.day = currentDay, !.triggersToday = 0]
    ELSE met

\* the reset of bumpMetrics when the stored day is not the current one
ResetIfNewDay(met, currentDay) ==
    IF met.day # currentDay
    THEN [day |-> currentDay, triggersToday |-> 0, byChannel |-> EmptyMap, byRule |-> EmptyMap]
    ELSE met

\* bumpMetrics(state, message, detection), with getUtcDay() = currentDay
bumpMetrics(met, channelId, detection, currentDay) ==
    LET m0 == ResetIfNewDay(met, currentDay)
    IN  [day |-> m0.day,
         triggersToday |-> m0.triggersToday + 1,
         byChannel |-> bumpCount(m0.byChannel, channelId),
         byRule |-> bumpAll(bumpAll(m0.byRule, "term:", detection.matchedTerms),
                            "price:", detection.matchedPriceSignals)]

\* formatError(error)
formatError(error) ==
    IF error.kind = "falsy" THEN "unknown error" ELSE error.message

\* what message.reply may throw
Errors == {[kind |-> "Error", message |-> "Missing Permissions"]}

\* the log-channel candidates of guild g1, and their display names
LogChannels == {"m1", "m2"}
LogChannelName(id) == IF id = "m1" THEN "Mod-Log" ELSE "audit"

\* the guild text channels message.guild.channels sees
TextChannelsOf(guildId, live) == IF guildId = "g1" THEN live ELSE {}

\* no log text composed yet
NoPayload == [built |-> FALSE, warningStatus |-> "", warningError |-> "", count |-> 0]

\* buildModLogMessage: the fields of the log text that depend on the run and the metrics
buildModLogMessage(run, warningStatus, warningError, met) ==
    [built |-> TRUE, warningStatus |-> warningStatus, warningError |-> warningError,
     count |-> met.triggersToday]

\* sendModLog composing the text from the count the event had after its own metrics update
DeliverOwnCount(run, channelId, met) ==
    [run EXCEPT !.pc = "send", !.target = channelId, !.sends = @ + 1,
                !.logPayload = buildModLogMessage(run, run.warningStatus, run.warningError,
                                                  [met EXCEPT !.triggersToday = run.ordinal])]

\* sendModLog from the resolved channel on: compose the text and call modLogChannel.send
Deliver(run, channelId, met) ==
    [run EXCEPT !.pc = "send", !.target = channelId, !.sends = @ + 1,
                !.logPayload = buildModLogMessage(run, run.warningStatus, run.warningError, met)]

\* resolveModLogChannel using the cached id without looking the channel up
resolveModLogChannelTrustsCache(run, cfg, cache, live) ==
    LET cachedChannelId == IF run.guildId \in DOMAIN cache THEN cache[run.guildId] ELSE ""
    IN  IF cachedChannelId # ""
        THEN [pc |-> "cached", channel |-> cachedChannelId, stale |-> FALSE]
        ELSE IF cfg.modLogChannelId # ""
             THEN [pc |-> "fetchId", channel |-> "", stale |-> FALSE]
             ELSE [pc |-> "fetchAll", channel |-> "", stale |-> FALSE]

\* resolveModLogChannel up to its first await: the cached channel, or the fetch to wait
\* for; stale tells that the cache held an id that is no longer a text channel
resolveModLogChannel(run, cfg, cache, live) ==
    LET cachedChannelId == IF run.guildId \in DOMAIN cache THEN cache[run.guildId] ELSE ""
    IN  IF cachedChannelId # "" /\ cachedChannelId \in TextChannelsOf(run.guildId, live)
        THEN [pc |-> "cached", channel |-> cachedChannelId, stale |-> FALSE]
        ELSE IF cfg.modLogChannelId # ""
             THEN [pc |-> "fetchId", channel |-> "", stale |-> cachedChannelId # ""]
             ELSE [pc |-> "fetchAll", channel |-> "", stale |-> cachedChannelId # ""]

\* sendModLog(message, detection, config, state, warningStatus, warningError) up to its
\* first external call
sendModLog(run, warningStatus, warningError, cfg, cache, live, met) ==
    LET r1 == [run EXCEPT !.warningStatus = warningStatus, !.warningError = warningError,
                          !.modLogCalls = @ + 1]
        res == resolveModLogChannel(r1, cfg, cache, live)
    IN  IF res.pc = "cached"
        THEN Deliver(r1, res.channel, met)
        ELSE [r1 EXCEPT !.pc = res.pc, !.stale = res.stale]

\* handleTriggeredMessage replying without regard to the cooldown answer
handleTriggeredMessageAlwaysReplies(message, detection, cfg, cds, cache, live, met, now) ==
    LET cd == isCoolingDown(cds, cooldownKey(message.author.id, message.channel.id), cfg, now)
    IN  [cooldowns |-> cd.cooldowns,
         run |-> [author |-> message.author.id, channelId |-> message.channel.id,
                  guildId |-> message.channel.guildId, detection |-> detection,
                  suppressed |-> cd.suppressed, pc |-> "reply",
                  warningStatus |-> "sent", warningError |-> "", replyCalled |-> TRUE,
                  replyOutcome |-> "none", modLogCalls |-> 0, target |-> "", sends |-> 0,
                  logPayload |-> NoPayload, diag |-> "", ordinal |-> met.triggersToday,
                  stale |-> FALSE]]

\* handleTriggeredMessage up to its first external call
handleTriggeredMessage(message, detection, cfg, cds, cache, live, met, now) ==
    LET cd == isCoolingDown(cds, cooldownKey(message.author.id, message.channel.id), cfg, now)
        run0 == [author |-> message.author.id, channelId |-> message.channel.id,
                 guildId |-> message.channel.guildId, detection |-> detection,
                 suppressed |-> cd.suppressed, pc |-> "reply",
                 warningStatus |-> IF cd.suppressed THEN "cooldown_suppressed" ELSE "sent",
                 warningError |-> "", replyCalled |-> ~cd.suppressed,
                 replyOutcome |-> "none",
                 modLogCalls |-> 0, target |-> "", sends |-> 0,
                 logPayload |-> NoPayload, diag |-> "", ordinal |-> met.triggersToday,
                 stale |-> FALSE]
    IN  [cooldowns |-> cd.cooldowns,
         run |-> IF cd.suppressed
                 THEN sendModLog(run0, run0.warningStatus, "", cfg, cache, live, met)
                 ELSE run0]

\* allChannels.find(...): the first guild text channel with the configured name, "" for none
FindByName(guildId, cfg, live) ==
    LET named == {c \in TextChannelsOf(guildId, live) :
                      LowerName(LogChannelName(c)) = cfg.modLogChannelName}
    IN  IF named = {} THEN "" ELSE CHOOSE c \in named : TRUE

\* state.modLogChannelIds.set(cacheKey, id)
CacheSet(cache, guildId, id) ==
    [g \in DOMAIN cache \cup {guildId} |-> IF g = guildId THEN id ELSE cache[g]]

\* ----------------------------------------------------------------- actions
\* SpecDetect's variable outside SpecDetect
NoSample ==
    [text |-> <<>>, classified |-> FALSE, verdict |-> ExceptionVerdict, author |-> "",
     channel |-> ""]

\* the sequence without its r-th entry
Without(seq, r) == SubSeq(seq, 1, r - 1) \o SubSeq(seq, r + 1, Len(seq))

\* run r continues as run: a run whose promise settles leaves the suspended runs
Settle(r, run) ==
    IF run.pc = "done"
    THEN /\ runs' = Without(runs, r)
         /\ completed' = completed + 1
         /\ console' = IF run.diag # "" THEN run.diag ELSE console
         /\ UNCHANGED rejected
    ELSE IF run.pc = "rejected"
    THEN /\ runs' = Without(runs, r)
         /\ rejected' = rejected + 1
         /\ UNCHANGED <<completed, console>>
    ELSE /\ runs' = [runs EXCEPT ![r] = run]
         /\ UNCHANGED <<completed, rejected, console>>

\* the cooldown check of a run, appended to the checks of its key
Checked(key, now, run) ==
    [k \in DOMAIN checks \cup {key} |->
        (IF k \in DOMAIN checks THEN checks[k] ELSE <<>>)
            \o (IF k = key
                THEN <<[now |-> now, suppressed |-> run.suppressed, replied |-> run.replyCalled]>>
                ELSE <<>>)]

\* startRuleGuardian: the session state at construction
InitSession ==
    /\ clock = 1
    /\ cooldowns = EmptyMap
    /\ metrics = [day |-> getUtcDay(1), triggersToday |-> 0,
                  byChannel |-> EmptyMap, byRule |-> EmptyMap]
    /\ modLogChannelIds = EmptyMap
    /\ runs = <<>>
    /\ events = 0
    /\ completed = 0
    /\ rejected = 0
    /\ checks = EmptyMap
    /\ console = ""

Init ==
    /\ \E sc \in Scenarios :
          /\ config = sc.config
          /\ feed = sc.feed
          /\ maxEvents = sc.maxEvents
          /\ maxInFlight = sc.maxInFlight
          /\ guildText = sc.textChannels
    /\ sample = NoSample
    /\ InitSession

\* time passes
Tick ==
    /\ clock < MaxTime
    /\ clock' = clock + 1
    /\ UNCHANGED <<fixed, cooldowns, metrics, modLogChannelIds, guildText, runs, events,
                   completed, rejected, checks, console>>

\* a log-channel candidate of the guild is deleted
ChannelDelete(c) ==
    /\ c \in guildText
    /\ guildText' = guildText \ {c}
    /\ UNCHANGED <<fixed, clock, cooldowns, metrics, modLogChannelIds, runs, events,
                   completed, rejected, checks, console>>

\* onMessageCreate(message, config, detectors, state) up to its first external call
onMessageCreate(message) ==
    LET detection == detectContent(message.content, buildDetectors(config), config)
    IN  IF ~shouldProcessMessage(message, config)
        THEN UNCHANGED <<cooldowns, metrics, runs, events, checks>>
        ELSE IF ~detection.triggered
        THEN UNCHANGED <<cooldowns, metrics, runs, events, checks>>
        ELSE LET met == bumpMetrics(metrics, message.channel.id, detection, getUtcDay(clock))
                 h == handleTriggeredMessage(message, detection, config, cooldowns,
                                             modLogChannelIds, guildText, met, clock)
             IN  /\ events < maxEvents
                 /\ Len(runs) < maxInFlight
                 /\ events' = events + 1
                 /\ metrics' = met
                 /\ cooldowns' = h.cooldowns
                 /\ runs' = Append(runs, h.run)
                 /\ checks' = Checked(cooldownKey(message.author.id, message.channel.id),
                                      clock, h.run)

\* client.on('messageCreate', ...): the gateway delivers message
MessageCreate(message) ==
    /\ onMessageCreate(message)
    /\ UNCHANGED <<fixed, clock, modLogChannelIds, guildText, completed, rejected, console>>

\* message.reply awaited outside any try: its rejection ends the run
ReplyReturnsUncaught(r, ok, error) ==
    /\ r \in 1..Len(runs)
    /\ runs[r].pc = "reply"
    /\ Settle(r, IF ok
                 THEN sendModLog([runs[r] EXCEPT !.replyOutcome = "ok"], "sent", "",
                                 config, modLogChannelIds, guildText, metrics)
                 ELSE [runs[r] EXCEPT !.replyOutcome = "threw", !.pc = "rejected"])
    /\ UNCHANGED <<fixed, clock, cooldowns, metrics, modLogChannelIds, guildText, events,
                   checks>>

\* message.reply settles: resolved, or rejected with error
ReplyReturns(r, ok, error) ==
    /\ r \in 1..Len(runs)
    /\ runs[r].pc = "reply"
    /\ Settle(r, sendModLog([runs[r] EXCEPT !.replyOutcome = IF ok THEN "ok" ELSE "threw"],
                            IF ok THEN "sent" ELSE "failed",
                            IF ok THEN "" ELSE formatError(error),
                            config, modLogChannelIds, guildText, metrics))
    /\ UNCHANGED <<fixed, clock, cooldowns, metrics, modLogChannelIds, guildText, events,
                   checks>>

\* message.guild.channels.fetch(config.modLogChannelId).catch(() => null) settles
FetchIdReturns(r, found) ==
    /\ r \in 1..Len(runs)
    /\ runs[r].pc = "fetchId"
    /\ found => config.modLogChannelId \in TextChannelsOf(runs[r].guildId, guildText)
    /\ IF found
       THEN /\ modLogChannelIds' =
                  CacheSet(modLogChannelIds, runs[r].guildId, config.modLogChannelId)
            /\ Settle(r, Deliver(runs[r], config.modLogChannelId, metrics))
       ELSE /\ Settle(r, [runs[r] EXCEPT !.pc = "fetchAll"])
            /\ UNCHANGED modLogChannelIds
    /\ UNCHANGED <<fixed, clock, cooldowns, metrics, guildText, events, checks>>

\* sendModLog without its catch: the failure leaves the run
CatchLogFailureRethrows(run) == [run EXCEPT !.pc = "rejected"]

\* the catch of sendModLog: a diagnostic, and the run completes
CatchLogFailure(run) == [run EXCEPT !.pc = "done", !.diag = "send_failed"]

\* sendModLog throwing where it should return when no channel was found
FetchAllReturnsThrowsWhenMissing(r, ok) ==
    /\ r \in 1..Len(runs)
    /\ runs[r].pc = "fetchAll"
    /\ LET byName == FindByName(runs[r].guildId, config, guildText)
       IN  IF ~ok
           THEN /\ Settle(r, CatchLogFailure(runs[r]))
                /\ UNCHANGED modLogChannelIds
           ELSE IF byName # ""
           THEN /\ modLogChannelIds' = CacheSet(modLogChannelIds, runs[r].guildId, byName)
                /\ Settle(r, Deliver(runs[r], byName, metrics))
           ELSE /\ Settle(r, [runs[r] EXCEPT !.pc = "rejected"])
                /\ UNCHANGED modLogChannelIds
    /\ UNCHANGED <<fixed, clock, cooldowns, metrics, guildText, events, checks>>

\* message.guild.channels.fetch() settles
FetchAllReturns(r, ok) ==
    /\ r \in 1..Len(runs)
    /\ runs[r].pc = "fetchAll"
    /\ LET byName == FindByName(runs[r].guildId, config, guildText)
       IN  IF ~ok
           THEN /\ Settle(r, CatchLogFailure(runs[r]))
                /\ UNCHANGED modLogChannelIds
           ELSE IF byName # ""
           THEN /\ modLogChannelIds' = CacheSet(modLogChannelIds, runs[r].guildId, byName)
                /\ Settle(r, Deliver(runs[r], byName, metrics))
           ELSE /\ Settle(r, [runs[r] EXCEPT !.pc = "done", !.diag = "not_found"])
                /\ UNCHANGED modLogChannelIds
    /\ UNCHANGED <<fixed, clock, cooldowns, metrics, guildText, events, checks>>

\* modLogChannel.send settles, and the cooldown entry of the run is stored only now
SendReturnsThenRecords(r, ok) ==
    /\ r \in 1..Len(runs)
    /\ runs[r].pc = "send"
    /\ Settle(r, IF ok THEN [runs[r] EXCEPT !.pc = "done"] ELSE CatchLogFailure(runs[r]))
    /\ LET key == cooldownKey(runs[r].author, runs[r].channelId)
       IN  cooldowns' = [k \in DOMAIN cooldowns \cup {key} |->
                            IF k = key THEN clock ELSE cooldowns[k]]
    /\ UNCHANGED <<fixed, clock, metrics, modLogChannelIds, guildText, events, checks>>

\* a failed modLogChannel.send leaving the run waiting on a promise nobody settles
SendReturnsNeverSettles(r, ok) ==
    /\ r \in 1..Len(runs)
    /\ runs[r].pc = "send"
    /\ Settle(r, [runs[r] EXCEPT !.pc = IF ok THEN "done" ELSE "hung"])
    /\ UNCHANGED <<fixed, clock, cooldowns, metrics, modLogChannelIds, guildText, events,
                   checks>>

\* modLogChannel.send settles
SendReturns(r, ok) ==
    /\ r \in 1..Len(runs)
    /\ runs[r].pc = "send"
    /\ Settle(r, IF ok THEN [runs[r] EXCEPT !.pc = "done"] ELSE CatchLogFailure(runs[r]))
    /\ UNCHANGED <<fixed, clock, cooldowns, metrics, modLogChannelIds, guildText, events,
                   checks>>

Next ==
    \/ Tick
    \/ \E c \in LogChannels : ChannelDelete(c)
    \/ \E m \in feed : MessageCreate(m)
    \/ \E r \in 1..MaxInFlight, ok \in BOOLEAN, e \in Errors : ReplyReturns(r, ok, e)
    \/ \E r \in 1..MaxInFlight, found \in BOOLEAN : FetchIdReturns(r, found)
    \/ \E r \in 1..MaxInFlight, ok \in BOOLEAN : FetchAllReturns(r, ok)
    \/ \E r \in 1..MaxInFlight, ok \in BOOLEAN : SendReturns(r, ok)

Spec == Init /\ [][Next]_vars

\* the external call the run at position r is suspended in returns
Returns(r) ==
    \/ \E ok \in BOOLEAN, e \in Errors : ReplyReturns(r, ok, e)
    \/ \E found \in BOOLEAN : FetchIdReturns(r, found)
    \/ \E ok \in BOOLEAN : FetchAllReturns(r, ok)
    \/ \E ok \in BOOLEAN : SendReturns(r, ok)

\* the sessions with a log channel given by id and the sessions without any log channel
InitLive ==
    /\ Init
    /\ config \in {ConfigById, ConfigNoCooldown}

\* these sessions under the assumption that every external call eventually returns
FairSpec == InitLive /\ [][Next]_vars /\ \A r \in 1..MaxInFlight : WF_vars(Returns(r))

\* ------------------------------------------------------------- SpecDetect
InitDetect ==
    /\ config \in Configs
    /\ feed = {}
    /\ maxEvents = 1
    /\ maxInFlight = 1
    /\ guildText = LogChannels
    /\ sample \in {[text |-> t, classified |-> FALSE, verdict |-> ExceptionVerdict,
                    author |-> "", channel |-> ""] : t \in TextsUpTo(MaxTextLen)}
    /\ InitSession

\* detectContent applied to the sample text
Classify ==
    /\ ~sample.classified
    /\ sample' = [sample EXCEPT !.classified = TRUE,
                                !.verdict = detectContent(sample.text, buildDetectors(config),
                                                          config)]
    /\ UNCHANGED <<config, feed, maxEvents, maxInFlight, clock, cooldowns, metrics,
                   modLogChannelIds, guildText, runs, events, completed, rejected, checks,
                   console>>

\* the messageCreate event carrying the sample text, written by a in channel c
DispatchSample(a, c) ==
    /\ sample.classified
    /\ sample.channel = ""
    /\ sample' = [sample EXCEPT !.author = a, !.channel = c]
    /\ onMessageCreate(Msg(a, c, sample.text))
    /\ UNCHANGED <<config, feed, maxEvents, maxInFlight, clock, modLogChannelIds, guildText,
                   completed, rejected, console>>

NextDetect ==
    \/ Classify
    \/ \E a \in {"u1", "b1"}, c \in {ch.id : ch \in Channels} : DispatchSample(a, c)

SpecDetect == InitDetect /\ [][NextDetect]_vars

\* ------------------------------------------------------------------ claims
\* some configured exception pattern occurs in text as a substring, letter case ignored
ExceptionOccurs(cfg, text) ==
    \E k \in 1..Len(cfg.exceptionPatterns) :
        LET p == cfg.exceptionPatterns[k]
        IN  \E i \in 0..(Len(text) - Len(p)) :
                LowerStr(SubSeq(text, i + 1, i + Len(p))) = LowerStr(p)

\* the elements of a sequence
Range(seq) == {seq[i] : i \in 1..Len(seq)}

\* C1: whenever an exception pattern occurs in the text (case-insensitive substring), the
\* verdict is not triggered and all its lists are empty, whatever else the text holds, and
\* delivering the message changes neither metrics nor cooldowns and starts no warning or log
ExceptionOverride ==
    (sample.classified /\ ExceptionOccurs(config, sample.text)) =>
        /\ sample.verdict.triggered = FALSE
        /\ sample.verdict.matchedTerms = <<>>
        /\ sample.verdict.matchedPriceSignals = <<>>
        /\ sample.verdict.triggerTypes = <<>>
        /\ events = 0
        /\ runs = <<>>
        /\ cooldowns = EmptyMap
        /\ checks = EmptyMap
        /\ metrics = [day |-> getUtcDay(1), triggersToday |-> 0,
                      byChannel |-> EmptyMap, byRule |-> EmptyMap]

\* a text with an exception pattern, a restricted word and a currency symbol was delivered
\* in a moderated channel
ExceptionOverrideWitness ==
    /\ sample.channel # ""
    /\ shouldProcessMessage(Msg(sample.author, sample.channel, sample.text), config)
    /\ ExceptionOccurs(config, sample.text)
    /\ \E k \in 1..Len(config.restrictedTerms) :
           WordRegexTest(config.restrictedTerms[k], sample.text)
    /\ config.enablePricePattern
    /\ \E i \in 1..Len(sample.text) : sample.text[i] \in CurrencySymbols

\* C10: with no exception pattern in the text, triggered holds exactly when a term or a
\* price signal matched, each trigger type is listed exactly when its list is non-empty,
\* and with price-pattern detection disabled no price signal is ever reported
VerdictRelations ==
    (sample.classified /\ ~ExceptionOccurs(config, sample.text)) =>
        LET v == sample.verdict
        IN  /\ v.triggered <=> (v.matchedTerms # <<>> \/ v.matchedPriceSignals # <<>>)
            /\ ("word match" \in Range(v.triggerTypes)) <=> (v.matchedTerms # <<>>)
            /\ ("price pattern" \in Range(v.triggerTypes)) <=> (v.matchedPriceSignals # <<>>)
            /\ ~config.enablePricePattern => v.matchedPriceSignals = <<>>

\* a text without exception pattern or restricted word whose verdict is triggered by a
\* price signal alone
VerdictRelationsWitness ==
    /\ sample.classified
    /\ ~ExceptionOccurs(config, sample.text)
    /\ sample.verdict.triggered
    /\ sample.verdict.matchedTerms = <<>>
    /\ sample.verdict.triggerTypes = <<"price pattern">>

\* the configured cooldown duration D
D == config.warningCooldownMs

\* C2: with D > 0, after a check of a key at time t that did not suppress, every later
\* check of the key at a time t2 with t2 - t < D suppresses, and the first later check
\* with t2 - t >= D does not; the suppressed checks in between leave the window alone
CooldownWindow ==
    D > 0 =>
        \A key \in DOMAIN checks :
            \A j \in 1..Len(checks[key]) :
                ~checks[key][j].suppressed =>
                    \A k \in (j + 1)..Len(checks[key]) :
                        LET t == checks[key][j].now
                            t2 == checks[key][k].now
                        IN  /\ t2 - t < D => checks[key][k].suppressed
                            /\ (/\ t2 - t >= D
                                /\ \A m \in (j + 1)..(k - 1) : checks[key][m].now - t < D)
                                   => ~checks[key][k].suppressed

\* a key warned, then suppressed inside the window, then warned again once D had passed
\* since the first warning
CooldownWindowWitness ==
    /\ D > 0
    /\ \E key \in DOMAIN checks :
           /\ Len(checks[key]) >= 3
           /\ ~checks[key][1].suppressed
           /\ checks[key][2].suppressed
           /\ ~checks[key][3].suppressed
           /\ checks[key][3].now - checks[key][1].now >= D
           /\ checks[key][3].now - checks[key][2].now < D

\* C3: with D > 0, any two checks of one key that went on to call message.reply lie at
\* least D apart, whatever the runs in flight were doing in between
WarningSpacing ==
    D > 0 =>
        \A key \in DOMAIN checks :
            \A j, k \in 1..Len(checks[key]) :
                (j < k /\ checks[key][j].replied /\ checks[key][k].replied)
                    => checks[key][k].now - checks[key][j].now >= D

\* two runs of one key both suspended in message.reply
WarningSpacingWitness ==
    /\ D > 0
    /\ Len(runs) = 2
    /\ runs[1].author = runs[2].author
    /\ runs[1].channelId = runs[2].channelId
    /\ runs[1].pc = "reply"
    /\ runs[2].pc = "reply"

\* the time of the last check of key that did not suppress (0 when there is none)
LastWarningAt(key) ==
    LET open == {j \in 1..Len(checks[key]) : ~checks[key][j].suppressed}
    IN  IF open = {} THEN 0
        ELSE checks[key][CHOOSE j \in open : \A m \in open : m <= j].now

\* C8 as stated: the cooldown entry of a key holds the time of the key's latest triggered
\* event, suppressed or not
CooldownEntryAlwaysUpdated ==
    \A key \in DOMAIN checks :
        /\ key \in DOMAIN cooldowns
        /\ cooldowns[key] = checks[key][Len(checks[key])].now

\* C8 amended: the cooldown entry of a key holds the time of the key's latest triggered
\* event that was not suppressed; a suppressed event leaves the entry as it was
CooldownEntryUpdatedUnlessSuppressed ==
    /\ DOMAIN cooldowns = DOMAIN checks
    /\ \A key \in DOMAIN checks : cooldowns[key] = LastWarningAt(key)

\* a key whose latest event was suppressed, its entry still holding the earlier time
CooldownEntryWitness ==
    \E key \in DOMAIN checks :
        /\ checks[key][Len(checks[key])].suppressed
        /\ cooldowns[key] < checks[key][Len(checks[key])].now

\* the outcome fields of a run agree with what its warning step did
StatusMatches(run) ==
    /\ run.suppressed =>
           /\ ~run.replyCalled
           /\ run.replyOutcome = "none"
           /\ run.warningStatus = "cooldown_suppressed"
           /\ run.warningError = ""
    /\ ~run.suppressed =>
           /\ run.replyCalled
           /\ run.replyOutcome \in {"ok", "threw"}
           /\ run.replyOutcome = "ok" => (run.warningStatus = "sent" /\ run.warningError = "")
           /\ run.replyOutcome = "threw" =>
                  (run.warningStatus = "failed" /\ run.warningError = "Missing Permissions")
    /\ run.logPayload.built =>
           /\ run.logPayload.warningStatus = run.warningStatus
           /\ run.logPayload.warningError = run.warningError

\* every suspended run: no log attempt while message.reply is pending, exactly one after
\* the warning step, made with the matching status, and at most one send
LogAttempts ==
    \A r \in 1..Len(runs) :
        /\ runs[r].sends <= 1
        /\ runs[r].pc = "reply" =>
               (runs[r].modLogCalls = 0 /\ ~runs[r].suppressed /\ runs[r].replyCalled)
        /\ runs[r].pc # "reply" => (runs[r].modLogCalls = 1 /\ StatusMatches(runs[r]))

\* C4: every triggered event gets exactly one log attempt, made after the warning step has
\* finished and carrying the status of what happened: cooldown_suppressed without a call of
\* message.reply, sent after a reply that resolved, failed with the error text after one
\* that threw; no run ends without its log attempt
LogAttemptedOnceWithStatus ==
    [][/\ LogAttempts'
       /\ Len(runs') < Len(runs) =>
              \E r \in 1..Len(runs) : runs' = Without(runs, r) /\ runs[r].modLogCalls = 1]_vars

\* a run whose reply threw and a suppressed run of the same key, both at the log send
LogAttemptedWitness ==
    /\ Len(runs) = 2
    /\ \E r \in 1..2 : runs[r].pc = "send" /\ runs[r].warningStatus = "cooldown_suppressed"
    /\ \E r \in 1..2 : runs[r].pc = "send" /\ runs[r].warningStatus = "failed"

\* C5: no run of onMessageCreate rejects, whichever of its external calls fail: every
\* triggered event is either still suspended or completed, and a reply that threw is
\* followed by the log attempt
NoFailureEscapes ==
    /\ rejected = 0
    /\ events = Len(runs) + completed
    /\ \A r \in 1..Len(runs) : runs[r].replyOutcome = "threw" => runs[r].modLogCalls = 1

\* a run whose reply threw is waiting for the fetch of all channels, which may fail as
\* well, after every earlier run completed
NoFailureEscapesWitness ==
    /\ completed = maxEvents - 1
    /\ completed >= 1
    /\ Len(runs) = 1
    /\ runs[1].replyOutcome = "threw"
    /\ runs[1].pc = "fetchAll"

\* the byRule keys bumpMetrics derives from a verdict
RuleKeys(detection) ==
    {<<"term:">> \o LowerStr(t) : t \in Range(detection.matchedTerms)}
        \cup {<<"price:">> \o LowerStr(x) : x \in Range(detection.matchedPriceSignals)}

\* C6: a triggered event recorded on a UTC day other than the stored one finds the counters
\* reset first, so that afterwards triggersToday is 1, byChannel holds the event's channel
\* alone with count 1 and byRule the event's own keys alone; after every recorded event
\* the stored day is the UTC day of the update
MetricsDayReset ==
    [][events' = events + 1 =>
          /\ metrics'.day = getUtcDay(clock)
          /\ metrics.day # getUtcDay(clock) =>
                 \A m \in feed :
                     MessageCreate(m) =>
                         /\ metrics'.triggersToday = 1
                         /\ DOMAIN metrics'.byChannel = {m.channel.id}
                         /\ metrics'.byChannel[m.channel.id] = 1
                         /\ DOMAIN metrics'.byRule =
                                RuleKeys(detectContent(m.content, buildDetectors(config),
                                                       config))]_vars

\* an event recorded on a later day than the events before it, in another channel and
\* with other rule keys than theirs
MetricsDayResetWitness ==
    /\ events >= 2
    /\ metrics.day # getUtcDay(1)
    /\ metrics.triggersToday = 1
    /\ \E key \in DOMAIN checks : key[2] \notin DOMAIN metrics.byChannel
    /\ Cardinality(DOMAIN metrics.byRule) >= 2

\* C7 as stated: no two runs are started and unfinished at once
RunsSerialized == Len(runs) <= 1

\* C7 amended: runs overlap, but only while suspended at an external call; the metrics
\* update and the cooldown check of an event happen in the one step that starts its run,
\* and no later step of any run changes metrics or cooldowns
SynchronousSegmentAtomic ==
    [][/\ events' = events => UNCHANGED <<cooldowns, metrics>>
       /\ events' # events =>
              /\ events' = events + 1
              /\ Len(runs') = Len(runs) + 1
              /\ metrics'.triggersToday =
                     (IF metrics.day = getUtcDay(clock) THEN metrics.triggersToday ELSE 0) + 1
              /\ LET run == runs'[Len(runs')]
                     key == cooldownKey(run.author, run.channelId)
                 IN  /\ run.pc \in {"reply", "fetchId", "fetchAll", "send"}
                     /\ key \in DOMAIN cooldowns'
                     /\ ~run.suppressed => cooldowns'[key] = clock
                     /\ \A k \in DOMAIN cooldowns : k # key => cooldowns'[k] = cooldowns[k]
       /\ \A r \in 1..Len(runs') : runs'[r].pc \in {"reply", "fetchId", "fetchAll", "send"}]_vars

\* a second event was counted and given its cooldown entry while the run of the first
\* was suspended in message.reply, and then went on to its log send
SynchronousSegmentWitness ==
    /\ Len(runs) = 2
    /\ runs[1].pc = "reply"
    /\ runs[2].pc = "send"
    /\ metrics.triggersToday = 2
    /\ cooldownKey(runs[1].author, runs[1].channelId)
           # cooldownKey(runs[2].author, runs[2].channelId)
    /\ Cardinality(DOMAIN cooldowns) = 2

\* the five ways of failing the eligibility gate, as the specification lists them
FailsGate(message, cfg) ==
    \/ message.channel.guildId = ""
    \/ message.channel.type # "GuildText"
    \/ (cfg.guildId # "" /\ message.channel.guildId # cfg.guildId)
    \/ message.author.bot
    \/ IF cfg.ruleChannelIds # {}
       THEN message.channel.id \notin cfg.ruleChannelIds
       ELSE \A n \in cfg.ruleChannelNames : LowerName(message.channel.name) # n

\* C9: a delivered message that fails the eligibility gate, or whose verdict is not
\* triggered, leaves cooldowns, metrics and the log-channel cache as they were and starts
\* no reply, no log-channel resolution and no log send
NoOpDelivery ==
    (/\ sample.channel # ""
     /\ \/ FailsGate(Msg(sample.author, sample.channel, sample.text), config)
        \/ ~sample.verdict.triggered) =>
        /\ cooldowns = EmptyMap
        /\ metrics = [day |-> getUtcDay(1), triggersToday |-> 0,
                      byChannel |-> EmptyMap, byRule |-> EmptyMap]
        /\ modLogChannelIds = EmptyMap
        /\ runs = <<>>
        /\ events = 0
        /\ checks = EmptyMap

\* a restricted word delivered by an automated author in a moderated channel
NoOpDeliveryWitness ==
    /\ sample.channel # ""
    /\ sample.author = "b1"
    /\ ~FailsGate(Msg("u1", sample.channel, sample.text), config)
    /\ \E k \in 1..Len(config.restrictedTerms) :
           WordRegexTest(config.restrictedTerms[k], sample.text)
    /\ ~ExceptionOccurs(config, sample.text)

\* C11 as stated: the matched values of a verdict are lower-cased and hold no two entries
\* equal when letter case is ignored
MatchedValuesNormalized ==
    sample.classified =>
        \A list \in {sample.verdict.matchedTerms, sample.verdict.matchedPriceSignals} :
            /\ \A k \in 1..Len(list) : list[k] = LowerStr(list[k])
            /\ \A j, k \in 1..Len(list) : LowerStr(list[j]) = LowerStr(list[k]) => j = k

\* an amount follows the currency symbol at position i: an optional blank, then a digit
AmountFollows(text, i) ==
    \/ i + 1 <= Len(text) /\ text[i + 1] = "5"
    \/ i + 2 <= Len(text) /\ text[i + 1] = " " /\ text[i + 2] = "5"

\* position e is at or after the end of the digits following the symbol at position i
CoversDigits(text, i, e) ==
    LET first == IF text[i + 1] = " " THEN i + 2 ELSE i + 1
    IN  /\ e >= first
        /\ e <= Len(text)
        /\ \A k \in first..Len(text) : (\A m \in first..k : text[m] = "5") => k <= e

\* C12: with price-pattern detection enabled and no exception pattern in the text, every
\* currency symbol in the text makes the verdict triggered with the price-pattern type,
\* the bare symbol among matchedPriceSignals and, when an amount follows the symbol, the
\* occurrence of symbol and amount among them as well
PriceSymbolsDetected ==
    (sample.classified /\ config.enablePricePattern
        /\ ~ExceptionOccurs(config, sample.text)) =>
        \A i \in 1..Len(sample.text) :
            sample.text[i] \in {"$", "£", "€"} =>
                /\ sample.verdict.triggered
                /\ "price pattern" \in Range(sample.verdict.triggerTypes)
                /\ <<sample.text[i]>> \in Range(sample.verdict.matchedPriceSignals)
                /\ AmountFollows(sample.text, i) =>
                       \E e \in (i + 1)..Len(sample.text) :
                           /\ CoversDigits(sample.text, i, e)
                           /\ SubSeq(sample.text, i, e)
                                  \in Range(sample.verdict.matchedPriceSignals)

\* a pound sign, a blank and an amount with a decimal, classified with detection enabled
PriceSymbolsDetectedWitness ==
    /\ sample.classified
    /\ config.enablePricePattern
    /\ ~ExceptionOccurs(config, sample.text)
    /\ sample.text = <<"£", " ", "5", ".">>
    /\ sample.verdict.matchedPriceSignals = <<(<<"£", " ", "5">>), (<<"£">>)>>

\* the message passes every check of the gate that comes before the channel selection
OtherwiseEligible(message, cfg) ==
    /\ message.channel.guildId # ""
    /\ message.channel.type = "GuildText"
    /\ cfg.guildId = "" \/ message.channel.guildId = cfg.guildId
    /\ ~message.author.bot

\* C13: a delivered message that is otherwise eligible and whose verdict is triggered is
\* processed exactly when its channel id is in the id allow-list if that list is not
\* empty, whatever the channel is called, and exactly when its lower-cased channel name
\* is in the name allow-list if the id list is empty
AllowListAuthoritative ==
    (/\ sample.channel # ""
     /\ OtherwiseEligible(Msg(sample.author, sample.channel, sample.text), config)
     /\ sample.verdict.triggered) =>
        LET channel == Msg(sample.author, sample.channel, sample.text).channel
        IN  (events = 1) <=>
                IF config.ruleChannelIds # {}
                THEN channel.id \in config.ruleChannelIds
                ELSE LowerName(channel.name) \in config.ruleChannelNames

\* with an id list configured, a triggering text delivered in a channel whose name is on
\* the name list but whose id is not on the id list
AllowListAuthoritativeWitness ==
    /\ sample.channel # ""
    /\ OtherwiseEligible(Msg(sample.author, sample.channel, sample.text), config)
    /\ sample.verdict.triggered
    /\ config.ruleChannelIds # {}
    /\ sample.channel \notin config.ruleChannelIds
    /\ LowerName(Msg(sample.author, sample.channel, sample.text).channel.name)
           \in config.ruleChannelNames

\* C14: with a cooldown of zero no check of any key ever suppresses, and every check
\* stores its time as the key's last-warning timestamp
ZeroCooldownAlwaysAllows ==
    D = 0 =>
        /\ DOMAIN cooldowns = DOMAIN checks
        /\ \A key \in DOMAIN checks :
               /\ \A j \in 1..Len(checks[key]) :
                      ~checks[key][j].suppressed /\ checks[key][j].replied
               /\ cooldowns[key] = checks[key][Len(checks[key])].now

\* with a cooldown of zero, one key checked twice at the same instant and once later
ZeroCooldownWitness ==
    /\ D = 0
    /\ \E key \in DOMAIN checks :
           /\ Len(checks[key]) >= 3
           /\ checks[key][2].now = checks[key][1].now
           /\ checks[key][3].now > checks[key][2].now

\* no guild text channel of the run's guild carries the configured log-channel name
NoNamedLogChannel(run) ==
    \A c \in LogChannels :
        (run.guildId = "g1" /\ c \in guildText)
            => LowerName(LogChannelName(c)) # config.modLogChannelName

\* this step is taken by the run at position r
StepOf(r) ==
    \/ runs' = Without(runs, r)
    \/ Len(runs') = Len(runs) /\ runs'[r] # runs[r]

\* C15: when a run has fallen through to the lookup by name and no text channel has the
\* configured name, its next step writes a diagnostic and ends the run normally, without
\* a log send, without a write to the log-channel cache, and with the metrics and the
\* cooldowns as the event left them
UnresolvedLogChannelSkipsSend ==
    [][\A r \in 1..Len(runs) :
          (runs[r].pc = "fetchAll" /\ NoNamedLogChannel(runs[r]) /\ StepOf(r)) =>
              /\ runs' = Without(runs, r)
              /\ runs[r].sends = 0
              /\ console' \in {"not_found", "send_failed"}
              /\ completed' = completed + 1
              /\ rejected' = rejected
              /\ UNCHANGED <<modLogChannelIds, metrics, cooldowns>>
              /\ metrics.triggersToday >= 1
              /\ cooldownKey(runs[r].author, runs[r].channelId) \in DOMAIN cooldowns]_vars

\* the cached log channel was deleted and a later run ended on the not-found diagnostic,
\* the stale cache entry still in place
UnresolvedLogChannelWitness ==
    /\ console = "not_found"
    /\ completed >= 2
    /\ runs = <<>>
    /\ "g1" \in DOMAIN modLogChannelIds
    /\ modLogChannelIds["g1"] \notin guildText
    /\ metrics.triggersToday >= 1
    /\ cooldowns # EmptyMap

\* the cache entry of guild g ("" for none)
CachedId(cache, g) == IF g \in DOMAIN cache THEN cache[g] ELSE ""

\* the run at position r of the next state has called modLogChannel.send in this step
NewlySending(r) ==
    /\ Len(runs') >= Len(runs)
    /\ runs'[r].sends = 1
    /\ r > Len(runs) \/ runs[r].sends = 0

\* the run at position r of the next state has called sendModLog in this step
NewlyLogging(r) ==
    /\ Len(runs') >= Len(runs)
    /\ runs'[r].modLogCalls = 1
    /\ r > Len(runs) \/ runs[r].modLogCalls = 0

\* C16: a log is only ever sent to a channel that is a guild text channel when it is
\* resolved; a cached id that is no longer one makes the resolution fall through to the
\* lookup by configured id and then by name; the cache is only written with the id of a
\* channel found to be a guild text channel in that step, a successful fallback leaves
\* the cache holding the channel it found, and a run that finds a live cached channel
\* sends to it without any fallback
StaleCacheFallsThrough ==
    [][/\ \A r \in 1..Len(runs') :
              /\ NewlySending(r) =>
                     runs'[r].target \in TextChannelsOf(runs'[r].guildId, guildText)
              /\ NewlyLogging(r) =>
                     LET cached == CachedId(modLogChannelIds, runs'[r].guildId)
                     IN  IF cached # "" /\ cached \in TextChannelsOf(runs'[r].guildId, guildText)
                         THEN runs'[r].pc = "send" /\ runs'[r].target = cached
                         ELSE /\ runs'[r].pc =
                                     IF config.modLogChannelId # "" THEN "fetchId" ELSE "fetchAll"
                              /\ runs'[r].stale = (cached # "")
              /\ (/\ Len(runs') = Len(runs)
                  /\ runs[r].pc = "fetchId"
                  /\ runs'[r] # runs[r]) => runs'[r].pc \in {"send", "fetchAll"}
              /\ (/\ Len(runs') = Len(runs)
                  /\ runs[r].pc \in {"fetchId", "fetchAll"}
                  /\ runs'[r].pc = "send") =>
                     CachedId(modLogChannelIds', runs'[r].guildId) = runs'[r].target
       /\ \A g \in DOMAIN modLogChannelIds' :
              CachedId(modLogChannelIds, g) # modLogChannelIds'[g] =>
                  modLogChannelIds'[g] \in TextChannelsOf(g, guildText)]_vars

\* a run that met a stale cache entry has found the channel by name, after the lookup by
\* the configured id, and the cache now holds that channel
StaleCacheWitness ==
    \E r \in 1..Len(runs) :
        /\ runs[r].stale
        /\ runs[r].pc = "send"
        /\ config.modLogChannelId # ""
        /\ runs[r].target # config.modLogChannelId
        /\ runs[r].target \in guildText
        /\ CachedId(modLogChannelIds, runs[r].guildId) = runs[r].target

\* C17: if every external call eventually returns, then whenever a started run has not yet
\* completed, eventually every started run has completed, whatever the other runs do
\* meanwhile, and no run ends before it has called sendModLog
RunsComplete ==
    /\ (events > completed) ~> (completed = events)
    /\ [][Len(runs') < Len(runs) =>
              /\ completed' = completed + 1
              /\ \E r \in 1..Len(runs) : runs' = Without(runs, r) /\ runs[r].modLogCalls = 1]_vars

\* every event the session follows was started and has completed, the last of them after a
\* failure in the log step
RunsCompleteWitness ==
    /\ maxInFlight >= 2
    /\ events = maxEvents
    /\ completed = events
    /\ runs = <<>>
    /\ console = "send_failed"

\* the sum of the counts stored in a Map
RECURSIVE SumCounts(_)
SumCounts(map) ==
    IF DOMAIN map = {} THEN 0
    ELSE LET k == CHOOSE x \in DOMAIN map : TRUE
         IN  map[k] + SumCounts([j \in DOMAIN map \ {k} |-> map[j]])

\* C18: in every state triggersToday is the sum of the per-channel counts, every stored
\* per-channel and per-rule count is at least 1, and byRule is non-empty when triggersToday
\* is positive, across triggered events and day rollovers
MetricsConsistent ==
    /\ metrics.triggersToday = SumCounts(metrics.byChannel)
    /\ \A c \in DOMAIN metrics.byChannel : metrics.byChannel[c] >= 1
    /\ \A key \in DOMAIN metrics.byRule : metrics.byRule[key] >= 1
    /\ metrics.triggersToday > 0 => metrics.byRule # EmptyMap

\* after a day rollover that discarded earlier counts, a channel counted twice on the new day
MetricsConsistentWitness ==
    /\ metrics.day # getUtcDay(1)
    /\ events > metrics.triggersToday
    /\ \E c \in DOMAIN metrics.byChannel : metrics.byChannel[c] >= 2

\* C19: every per-rule count is at most triggersToday, because one triggered event
\* increments each rule key at most once
RuleCountBounded ==
    \A key \in DOMAIN metrics.byRule : metrics.byRule[key] <= metrics.triggersToday

\* C20 as stated: the daily trigger count in an event's log text is the event's ordinal
\* among the day's triggered events, also when other events are dispatched while the run
\* is suspended
LogCountIsOrdinal ==
    \A r \in 1..Len(runs) :
        runs[r].logPayload.built => runs[r].logPayload.count = runs[r].ordinal

\* C20: the daily trigger count in an event's log text is the value of triggersToday at
\* the moment the text is composed, after the warning delivery and the channel resolution;
\* it is the event's ordinal when the run was never suspended before composing
LogCountIsCurrent ==
    [][\A r \in 1..Len(runs') :
           NewlySending(r) =>
               /\ runs'[r].logPayload.built
               /\ runs'[r].logPayload.count = metrics'.triggersToday
               /\ r > Len(runs) => runs'[r].logPayload.count = runs'[r].ordinal]_vars

\* a run whose log text carries a count other than the one its own metrics update produced
LogCountWitness ==
    \E r \in 1..Len(runs) :
        /\ runs[r].pc = "send"
        /\ runs[r].logPayload.built
        /\ runs[r].logPayload.count > runs[r].ordinal
        /\ runs[r].logPayload.count = metrics.triggersToday

====
